---------------------------- MODULE Spec2Model ----------------------------
(***************************************************************************)
(* Model of the OpenWeather -> Postgres ingestion pipeline:                *)
(*   weather_pipeline/extract.py    fetch_current_weather (retry/backoff)  *)
(*   weather_pipeline/transform.py  normalize_current_weather_payload      *)
(*   weather_pipeline/load.py       the Postgres repository operations     *)
(*   dags/weather_ingestion_hourly.py  the tasks that call them            *)
(*                                                                         *)
(* Conventions.  A JSON / Python value is a tagged record (J... below).    *)
(* A JSON number n/2 is carried as the integer n ("halves"), so that       *)
(* Python's int() truncation is a real conversion: JNum(3) is 1.5 and      *)
(* int(1.5) = 1.  Instants are whole epoch seconds.                        *)
(***************************************************************************)
EXTENDS Integers, Sequences, FiniteSets, TLC

VARIABLES
    call,      \* the activation of fetch_current_weather under study
    raw,       \* raw.weather_api_responses: sequence of rows, ingestion_id = index
    obs,       \* mart.weather_observation: set of rows
    latest,    \* mart.weather_latest: set of rows
    now,       \* the database / wall clock, whole seconds
    lastOp,    \* the task or repository call that ran last, with its outcome
    written,   \* history: parameters of the last committed upsert per key
    dag        \* the DAG run in progress: its task instances and their tries

vars == <<call, raw, obs, latest, now, lastOp, written, dag>>

storeVars == <<raw, obs, latest, now, lastOp, written, dag>>

-----------------------------------------------------------------------------
(* Bounds of the model *)

\* largest max_retries argument explored for fetch_current_weather
MaxRetriesArg == 3

\* largest backoff_seconds argument explored (whole seconds)
MaxBackoff == 2

\* most rows raw.weather_api_responses is let to grow to
MaxRaw == 2

-----------------------------------------------------------------------------
(* Python / JSON values *)

None == [t |-> "null"]

JNum(n) == [t |-> "num", n |-> n]

\* a JSON number that int() or datetime.fromtimestamp() rejects with the
\* exception e: ValueError for an instant outside the years 1-9999 (epoch
\* milliseconds, say) or NaN, OverflowError beyond time_t or for Infinity
JOutOfRange(e) == [t |-> "num", raises |-> e]

IsOutOfRange(v) == v.t = "num" /\ "raises" \in DOMAIN v

JStr(s) == [t |-> "str", s |-> s]

JObj(f) == [t |-> "obj", o |-> f]

JList(l) == [t |-> "list", l |-> l]

\* an aware UTC datetime / a timestamptz value
Ts(e) == [t |-> "ts", e |-> e]

\* datetime.isoformat() text of the instant e
Iso(e) == [t |-> "iso", e |-> e]

EmptyDict == [k \in {} |-> None]

IsDict(v) == v.t = "obj"

\* int(x) of a Python number carried in halves: truncation toward zero
PyInt(n) == IF n >= 0 THEN n \div 2 ELSE -((-n) \div 2)

\* d.get(k) on a Python dict d (the function under a JObj)
DictGet(d, k) == IF k \in DOMAIN d THEN d[k] ELSE None

\* the outcome of a Python expression: a value or a raised exception
Ok(v) == [ok |-> TRUE, v |-> v, exc |-> "none"]

Raise(e) == [ok |-> FALSE, v |-> None, exc |-> e]

-----------------------------------------------------------------------------
(* extract.py *)

RetryStatuses == {429, 500, 502, 503, 504}

\* _utc_from_unix: None stays None, a number goes through int() and
\* fromtimestamp().isoformat(); int() of anything else raises
UtcFromUnix(ts) ==
    IF ts.t = "null" THEN Ok(None)
    ELSE IF IsOutOfRange(ts) THEN Raise(ts.raises)
    ELSE IF ts.t = "num" THEN Ok(Iso(PyInt(ts.n)))
    ELSE IF ts.t = "str" THEN Raise("ValueError")
    ELSE Raise("TypeError")

\* what requests.get produced on one attempt: an HTTP response, or a raised
\* requests.Timeout / requests.ConnectionError
HttpResponse(status, parses, json, text) ==
    [kind |-> "http", status |-> status, parses |-> parses, json |-> json, text |-> text]

TransportFailure(k) ==
    [kind |-> k, status |-> 0, parses |-> FALSE, json |-> None, text |-> ""]

NoResponse == TransportFailure("none")

\* what one attempt is remembered as in call.outcomes
OutcomeOf(r) == IF r.kind = "http" THEN JNum(r.status) ELSE JStr(r.kind)

NoResult == [http_status |-> 0, payload |-> None, request_params |-> None,
             data_timestamp |-> None]

\* the activation record at entry (lines 38-48)
InitCall(max_retries, backoff_seconds, params) ==
    [max_retries |-> max_retries, backoff_seconds |-> backoff_seconds,
     params |-> params, attempt |-> 0, pc |-> "attempting",
     sleeps |-> <<>>, outcomes |-> <<>>, r |-> NoResponse,
     last_err |-> "none", exc |-> "none", result |-> NoResult]

\* a linear backoff in place of the exponential one
SleepLinearAndContinue(c, r) ==
    [c EXCEPT !.sleeps = Append(@, c.backoff_seconds * (c.attempt + 1)),
              !.outcomes = Append(@, OutcomeOf(r)),
              !.r = r,
              !.attempt = @ + 1]

\* time.sleep(backoff_seconds * 2**attempt); continue
SleepAndContinue(c, r) ==
    [c EXCEPT !.sleeps = Append(@, c.backoff_seconds * (2 ^ c.attempt)),
              !.outcomes = Append(@, OutcomeOf(r)),
              !.r = r,
              !.attempt = @ + 1]

Return(c, r, payload, data_ts) ==
    [c EXCEPT !.pc = "returned",
              !.outcomes = Append(@, OutcomeOf(r)),
              !.r = r,
              !.result = [http_status |-> r.status, payload |-> payload,
                          request_params |-> c.params, data_timestamp |-> data_ts]]

Propagate(c, r, e) ==
    [c EXCEPT !.pc = "raised", !.outcomes = Append(@, OutcomeOf(r)),
              !.r = r, !.exc = e]

\* a retry test that takes every error status for a transient one
RetriesAnyErrorStatus(c, r) == r.status >= 400 /\ c.attempt < c.max_retries

\* the retry test of line 55
RetriesHttp(c, r) == r.status \in RetryStatuses /\ c.attempt < c.max_retries

\* the body of the try block once the response r is in hand (lines 52-85)
HandleResponse(c, r) ==
    IF RetriesHttp(c, r) THEN SleepAndContinue(c, r)
    ELSE IF r.status >= 400 /\ r.status \notin RetryStatuses THEN
        Return(c, r,
               IF r.parses THEN r.json ELSE JObj([raw_text |-> JStr(r.text)]),
               None)
    ELSE IF ~r.parses THEN Propagate(c, r, "JSONDecodeError")
    ELSE IF IsDict(r.json) /\ "dt" \in DOMAIN r.json.o THEN
        LET ts == UtcFromUnix(DictGet(r.json.o, "dt")) IN
        IF ts.ok THEN Return(c, r, r.json, ts.v) ELSE Propagate(c, r, ts.exc)
    ELSE Return(c, r, r.json, None)

\* an except clause that gives up one attempt early
HandleTransportOffByOne(c, r) ==
    LET c1 == [c EXCEPT !.last_err = r.kind] IN
    IF c.attempt + 1 < c.max_retries THEN SleepAndContinue(c1, r)
    ELSE Propagate(c1, r, r.kind)

\* the except clause (lines 87-93)
HandleTransport(c, r) ==
    LET c1 == [c EXCEPT !.last_err = r.kind] IN
    IF c.attempt < c.max_retries THEN SleepAndContinue(c1, r)
    ELSE Propagate(c1, r, r.kind)

\* one iteration of the for loop, on the outcome r of requests.get
FetchAttempt(c, r) ==
    IF r.kind = "http" THEN HandleResponse(c, r) ELSE HandleTransport(c, r)

\* the for loop has a next iteration
LoopRuns(c) == c.pc = "attempting" /\ c.attempt < c.max_retries + 1

\* range(max_retries + 1) is used up: line 96
LoopOver(c) == c.pc = "attempting" /\ ~(c.attempt < c.max_retries + 1)

FallThrough(c) == [c EXCEPT !.pc = "raised", !.exc = "RuntimeError"]

-----------------------------------------------------------------------------
(* Inputs of the fetch specification *)

Statuses == {200, 401, 404, 429, 500, 501, 502, 503, 504}

\* response bodies: [parses, json, text]
Body(parses, json, text) == [parses |-> parses, json |-> json, text |-> text]

Bodies ==
    { Body(TRUE, JObj([dt |-> JNum(3), visibility |-> JNum(20)]), "{dt:1.5}"),
      Body(TRUE, JObj([message |-> JStr("m")]), "{message}"),
      Body(TRUE, JObj([dt |-> None]), "{dt:null}"),
      Body(TRUE, JObj([dt |-> JStr("n/a")]), "{dt:n/a}"),
      Body(TRUE, JList(<<>>), "[]"),
      Body(FALSE, None, "<html>") }

Responses ==
    { HttpResponse(s, b.parses, b.json, b.text) : s \in Statuses, b \in Bodies }
    \cup { TransportFailure("Timeout"), TransportFailure("ConnectionError") }

\* the params dict of lines 41-46
RequestParams(lat, lon, api_key, units) ==
    JObj([lat |-> JNum(lat), lon |-> JNum(lon), appid |-> JStr(api_key),
          units |-> JStr(units)])

\* no DAG run in progress
NoRun == [run |-> "none"]

EmptyStore ==
    /\ raw = <<>>
    /\ obs = {}
    /\ latest = {}
    /\ now = 0
    /\ lastOp = [op |-> "none", arg |-> 0, exc |-> "none", ret |-> 0, attempts |-> 0]
    /\ written = {}
    /\ dag = NoRun

\* a call with any max_retries from -1 (range(0): the loop body never runs)
\* up and any whole backoff_seconds, before its first attempt
InitFetch ==
    /\ call \in { InitCall(m, b, RequestParams(0, 0, "key", "metric")) :
                    m \in -1 .. MaxRetriesArg, b \in 1 .. MaxBackoff }
    /\ EmptyStore

\* one pass through the loop body: requests.get, then the handling of its outcome
Attempt ==
    /\ LoopRuns(call)
    /\ \E r \in Responses : call' = FetchAttempt(call, r)
    /\ UNCHANGED storeVars

\* the loop ends without a return or a raise
Exhaust ==
    /\ LoopOver(call)
    /\ call' = FallThrough(call)
    /\ UNCHANGED storeVars

NextFetch == Attempt \/ Exhaust

SpecFetch == InitFetch /\ [][NextFetch]_vars

-----------------------------------------------------------------------------
(* Properties of fetch_current_weather, checked under SpecFetch *)

TransportKinds == {"Timeout", "ConnectionError"}

IsTransport(o) == o.t = "str"

IsRetryStatus(o) == o.t = "num" /\ o.n \in RetryStatuses

IsRetryable(o) == IsTransport(o) \/ IsRetryStatus(o)

IsClientError(o) == o.t = "num" /\ o.n \in 400 .. 499 /\ o.n # 429

\* the body r.json() parses and its "dt", if any, is a number or null
WellFormed(r) ==
    /\ r.parses
    /\ (IsDict(r.json) /\ "dt" \in DOMAIN r.json.o) => r.json.o.dt.t \in {"num", "null"}

\* C1: a backoff sleep follows exactly the retryable outcomes (status in
\* 429/500/502/503/504 or transport failure) that are not the final attempt,
\* the k-th sleep (from 0) lasts backoff_seconds * 2^k, and outcomes
\* [503, 503, 200] with max_retries = 3 return status 200 after the two
\* sleeps backoff*1, backoff*2.
C1_BackoffSchedule ==
    /\ Len(call.sleeps) <= Len(call.outcomes)
    /\ \A i \in 1 .. Len(call.outcomes) :
          (IsRetryable(call.outcomes[i]) /\ i - 1 < call.max_retries)
             <=> i <= Len(call.sleeps)
    /\ \A k \in 1 .. Len(call.sleeps) :
          call.sleeps[k] = call.backoff_seconds * (2 ^ (k - 1))
    /\ (call.outcomes = <<JNum(503), JNum(503), JNum(200)>> /\ call.max_retries = 3) =>
          /\ call.sleeps = <<call.backoff_seconds * 1, call.backoff_seconds * 2>>
          /\ call.pc = "returned" => call.result.http_status = 200
          /\ WellFormed(call.r) => call.pc = "returned"

C1_Witness ==
    /\ call.outcomes = <<JNum(503), JNum(503), JNum(200)>>
    /\ call.max_retries = 3
    /\ call.pc = "returned"
    /\ call.result.http_status = 200
    /\ Len(call.sleeps) = 2

\* C2 (the statement as written): for max_retries >= 0 and outcomes that are retryable
\* statuses or transport failures, fetch makes at most max_retries + 1
\* attempts, never reaches the trailing RuntimeError, and ends only by
\* returning a result or by propagating the transport error.
C2_BoundedAttemptsAndOutcome ==
    (/\ call.max_retries >= 0
     /\ \A i \in 1 .. Len(call.outcomes) : IsRetryable(call.outcomes[i]))
    =>
    /\ Len(call.outcomes) <= call.max_retries + 1
    /\ call.attempt <= call.max_retries
    /\ call.exc # "RuntimeError"
    /\ call.pc = "raised" =>
          /\ call.exc \in TransportKinds
          /\ call.exc = call.r.kind

\* C3 (the statement as written): when all max_retries + 1 attempts get a retryable HTTP
\* status, fetch returns normally with the last status and the body as far
\* as it parses, also when the body does not parse.
C3_ExhaustedStatusReturns ==
    (/\ call.max_retries >= 0
     /\ Len(call.outcomes) = call.max_retries + 1
     /\ \A i \in 1 .. Len(call.outcomes) : IsRetryStatus(call.outcomes[i]))
    =>
    /\ call.pc = "returned"
    /\ call.result.http_status = call.r.status
    /\ call.r.parses => call.result.payload = call.r.json

\* C4: a transport failure on the last permitted attempt (index
\* max_retries) makes fetch raise it, returning nothing, after max_retries
\* earlier attempts that were each followed by a backoff sleep; a transport
\* failure on an earlier attempt is followed by a sleep and not propagated.
C4_TransportExhaustionRaises ==
    LET n == Len(call.outcomes) IN
    /\ (call.max_retries >= 0 /\ n = call.max_retries + 1 /\ IsTransport(call.outcomes[n])) =>
          /\ call.pc = "raised"
          /\ call.exc = call.outcomes[n].s
          /\ call.result = NoResult
          /\ Len(call.sleeps) = call.max_retries
    /\ (call.pc = "raised" /\ call.exc \in TransportKinds) =>
          /\ n = call.max_retries + 1
          /\ Len(call.sleeps) = call.max_retries
    /\ \A i \in 1 .. n :
          (IsTransport(call.outcomes[i]) /\ i - 1 < call.max_retries) =>
             /\ i <= Len(call.sleeps)
             /\ ~(call.pc = "raised" /\ i = n)

C4_Witness ==
    /\ call.max_retries = 2
    /\ call.pc = "raised"
    /\ call.exc = "Timeout"
    /\ call.outcomes[1] = JStr("ConnectionError")
    /\ Len(call.sleeps) = 2

-----------------------------------------------------------------------------
(* transform.py *)

\* _utc_dt_from_unix: None stays None, a number goes through int() and
\* fromtimestamp(), which raise on a number out of their range; int() of
\* a string that is no integer literal, as every string here, or of a
\* list or dict raises
UtcDtFromUnix(ts) ==
    IF ts.t = "null" THEN Ok(None)
    ELSE IF IsOutOfRange(ts) THEN Raise(ts.raises)
    ELSE IF ts.t = "num" THEN Ok(Ts(PyInt(ts.n)))
    ELSE IF ts.t = "str" THEN Raise("ValueError")
    ELSE Raise("TypeError")

\* a lookup that stops at the container: the second key is never applied
SafeGetContainer(d, k1, k2) ==
    IF ~IsDict(d) \/ k1 \notin DOMAIN d.o THEN None ELSE d.o[k1]

\* _safe_get(d, k1, k2, default=None)
SafeGet(d, k1, k2) ==
    IF ~IsDict(d) \/ k1 \notin DOMAIN d.o THEN None
    ELSE LET cur == d.o[k1] IN
         IF ~IsDict(cur) \/ k2 \notin DOMAIN cur.o THEN None
         ELSE cur.o[k2]

\* payload.get(k, {}) if isinstance(payload.get(k), dict) else {}
SubObject(payload, k) ==
    IF IsDict(DictGet(payload.o, k)) THEN DictGet(payload.o, k).o ELSE EmptyDict

\* weather0 of lines 35-37: the head of a non-empty "weather" list when it is
\* a dict, else None
Weather0(payload) ==
    LET w == DictGet(payload.o, "weather") IN
    IF w.t = "list" /\ w.l # <<>> THEN (IF IsDict(w.l[1]) THEN w.l[1] ELSE None)
    ELSE None

\* "weather0.get(k) if weather0 else None": None and {} are both falsy
Weather0Get(w0, k) ==
    IF w0.t = "null" \/ DOMAIN w0.o = {} THEN None ELSE DictGet(w0.o, k)

\* normalize_current_weather_payload
Normalize(payload) ==
    IF ~IsDict(payload) THEN Raise("AttributeError")
    ELSE
    LET observed_dt == UtcDtFromUnix(DictGet(payload.o, "dt")) IN
    IF ~observed_dt.ok THEN observed_dt
    ELSE IF observed_dt.v.t = "null" THEN Raise("ValueError")
    ELSE
    LET main == SubObject(payload, "main")
        wind == SubObject(payload, "wind")
        clouds == SubObject(payload, "clouds")
        weather0 == Weather0(payload)
    IN  Ok([observed_at |-> observed_dt.v,
            temp_c |-> DictGet(main, "temp"),
            feels_like_c |-> DictGet(main, "feels_like"),
            humidity_pct |-> DictGet(main, "humidity"),
            pressure_hpa |-> DictGet(main, "pressure"),
            wind_speed_mps |-> DictGet(wind, "speed"),
            wind_deg |-> DictGet(wind, "deg"),
            clouds_pct |-> DictGet(clouds, "all"),
            visibility_m |-> DictGet(payload.o, "visibility"),
            rain_1h_mm |-> SafeGet(payload, "rain", "1h"),
            snow_1h_mm |-> SafeGet(payload, "snow", "1h"),
            weather_main |-> Weather0Get(weather0, "main"),
            weather_description |-> Weather0Get(weather0, "description")])

-----------------------------------------------------------------------------
(* load.py *)

\* dim.location, read-only here
DimLocation ==
    { [location_id |-> 1, location_key |-> "a", lat |-> 10, lon |-> 20, is_active |-> TRUE],
      [location_id |-> 2, location_key |-> "b", lat |-> 30, lon |-> 40, is_active |-> TRUE] }

\* pg_fetch_active_locations, as the set of the rows it returns
FetchActiveLocations == { l \in DimLocation : l.is_active }

\* the %s::timestamptz cast of the data_timestamp parameter
ToTimestamptz(v) == IF v.t = "iso" THEN Ts(v.e) ELSE None

\* an insert that skips a (location, payload) it already holds
InsertRawUnlessDuplicate(table, t, endpoint, location_id, location_key, request_params, http_status, data_timestamp, payload) ==
    IF \E i \in 1 .. Len(table) :
          table[i].location_id = location_id /\ table[i].payload = payload
    THEN table
    ELSE Append(table,
           [ingestion_id |-> Len(table) + 1,
            endpoint |-> endpoint,
            location_id |-> location_id,
            location_key |-> location_key,
            request_params |-> request_params,
            http_status |-> http_status,
            data_timestamp |-> ToTimestamptz(data_timestamp),
            payload |-> payload,
            ingested_at |-> Ts(t)])

\* pg_insert_raw_response: one INSERT, ingestion_id generated by the store
\* (here the row's position), ingested_at left to the column default
InsertRawResponse(table, t, endpoint, location_id, location_key, request_params, http_status, data_timestamp, payload) ==
    Append(table,
           [ingestion_id |-> Len(table) + 1,
            endpoint |-> endpoint,
            location_id |-> location_id,
            location_key |-> location_key,
            request_params |-> request_params,
            http_status |-> http_status,
            data_timestamp |-> ToTimestamptz(data_timestamp),
            payload |-> payload,
            ingested_at |-> Ts(t)])

\* fetch_sql: SELECT ... WHERE ingestion_id = %s; cur.fetchone()
FetchRawRow(table, ingestion_id) ==
    { table[i] : i \in { j \in 1 .. Len(table) : table[j].ingestion_id = ingestion_id } }

\* the params dict of lines 131-148
UpsertParams(row, normalized, ingestion_id) ==
    [location_id |-> row.location_id,
     observed_at |-> normalized.observed_at,
     temp_c |-> normalized.temp_c,
     feels_like_c |-> normalized.feels_like_c,
     humidity_pct |-> normalized.humidity_pct,
     pressure_hpa |-> normalized.pressure_hpa,
     wind_speed_mps |-> normalized.wind_speed_mps,
     wind_deg |-> normalized.wind_deg,
     clouds_pct |-> normalized.clouds_pct,
     visibility_m |-> normalized.visibility_m,
     rain_1h_mm |-> normalized.rain_1h_mm,
     snow_1h_mm |-> normalized.snow_1h_mm,
     weather_main |-> normalized.weather_main,
     weather_description |-> normalized.weather_description,
     ingested_at |-> row.ingested_at,
     source_ingestion_id |-> ingestion_id]

\* the conflict target (location_id, observed_at)
SameObservationKey(a, b) ==
    a.location_id = b.location_id /\ a.observed_at = b.observed_at

\* a DO UPDATE SET list that forgets ingested_at and source_ingestion_id
ObservationSetDerivedOnly(old, excluded) ==
    [old EXCEPT !.temp_c = excluded.temp_c,
                !.feels_like_c = excluded.feels_like_c,
                !.humidity_pct = excluded.humidity_pct,
                !.pressure_hpa = excluded.pressure_hpa,
                !.wind_speed_mps = excluded.wind_speed_mps,
                !.wind_deg = excluded.wind_deg,
                !.clouds_pct = excluded.clouds_pct,
                !.visibility_m = excluded.visibility_m,
                !.rain_1h_mm = excluded.rain_1h_mm,
                !.snow_1h_mm = excluded.snow_1h_mm,
                !.weather_main = excluded.weather_main,
                !.weather_description = excluded.weather_description]

\* DO UPDATE SET ... of lines 102-116
ObservationSet(old, excluded) ==
    [old EXCEPT !.temp_c = excluded.temp_c,
                !.feels_like_c = excluded.feels_like_c,
                !.humidity_pct = excluded.humidity_pct,
                !.pressure_hpa = excluded.pressure_hpa,
                !.wind_speed_mps = excluded.wind_speed_mps,
                !.wind_deg = excluded.wind_deg,
                !.clouds_pct = excluded.clouds_pct,
                !.visibility_m = excluded.visibility_m,
                !.rain_1h_mm = excluded.rain_1h_mm,
                !.snow_1h_mm = excluded.snow_1h_mm,
                !.weather_main = excluded.weather_main,
                !.weather_description = excluded.weather_description,
                !.ingested_at = excluded.ingested_at,
                !.source_ingestion_id = excluded.source_ingestion_id]

\* an upsert whose update stamps the row with the time of the call
UpsertObservationStampNow(table, excluded) ==
    IF \E old \in table : SameObservationKey(old, excluded)
    THEN { IF SameObservationKey(old, excluded)
           THEN [ObservationSet(old, excluded) EXCEPT !.ingested_at = Ts(now)]
           ELSE old :
           old \in table }
    ELSE table \cup {excluded}

\* upsert_sql: INSERT ... ON CONFLICT (location_id, observed_at) DO UPDATE
UpsertObservation(table, excluded) ==
    IF \E old \in table : SameObservationKey(old, excluded)
    THEN { IF SameObservationKey(old, excluded) THEN ObservationSet(old, excluded) ELSE old :
           old \in table }
    ELSE table \cup {excluded}

\* pg_upsert_weather_observation up to the upsert: the parameters, or the
\* exception that ends the call
UpsertCall(table, ingestion_id) ==
    LET rows == FetchRawRow(table, ingestion_id) IN
    IF rows = {} THEN Raise("RuntimeError")
    ELSE LET row == CHOOSE r \in rows : TRUE
             normalized == Normalize(row.payload)
         IN  IF ~normalized.ok THEN normalized
             ELSE Ok(UpsertParams(row, normalized.v, ingestion_id))

CopiedColumns ==
    {"temp_c", "feels_like_c", "humidity_pct", "pressure_hpa", "wind_speed_mps",
     "wind_deg", "clouds_pct", "visibility_m", "rain_1h_mm", "snow_1h_mm",
     "weather_main", "weather_description"}

\* the newest rows of the whole table, the per-location DISTINCT ON left out
NewestOverall(table) ==
    { r \in table : \A r2 \in table : r2.observed_at.e <= r.observed_at.e }

\* the oldest row of each location: an ORDER BY ... observed_at ASC
OldestPerLocation(table) ==
    { r \in table :
        \A r2 \in table : r2.location_id = r.location_id => r2.observed_at.e >= r.observed_at.e }

\* SELECT DISTINCT ON (location_id) ... ORDER BY location_id, observed_at DESC:
\* per location the first row in descending observed_at order
NewestPerLocation(table) ==
    { r \in table :
        \A r2 \in table : r2.location_id = r.location_id => r2.observed_at.e <= r.observed_at.e }

\* the select list of lines 169-175
LatestRow(r, t) ==
    [c \in {"location_id", "observed_at"} \cup CopiedColumns \cup {"updated_at"} |->
        IF c = "updated_at" THEN Ts(t) ELSE r[c]]

\* a refresh that inserts rows for new locations but leaves existing ones alone
\* (ON CONFLICT DO NOTHING)
UpsertLatestDoNothing(table, excluded) ==
    IF \E old \in table : old.location_id = excluded.location_id
    THEN table
    ELSE table \cup {excluded}

\* INSERT INTO mart.weather_latest ... ON CONFLICT (location_id) DO UPDATE SET
\* every other column
UpsertLatest(table, excluded) ==
    IF \E old \in table : old.location_id = excluded.location_id
    THEN { IF old.location_id = excluded.location_id
           THEN [c \in DOMAIN old |-> IF c = "location_id" THEN old[c] ELSE excluded[c]]
           ELSE old : old \in table }
    ELSE table \cup {excluded}

RECURSIVE UpsertAllLatest(_, _)
UpsertAllLatest(table, rows) ==
    IF rows = {} THEN table
    ELSE LET r == CHOOSE x \in rows : TRUE IN
         UpsertAllLatest(UpsertLatest(table, r), rows \ {r})

\* pg_refresh_latest: the new contents of mart.weather_latest
RefreshedLatest(latestTable, obsTable, t) ==
    UpsertAllLatest(latestTable, { LatestRow(r, t) : r \in NewestPerLocation(obsTable) })

\* MAX(observed_at) over mart.weather_observation, None on an empty table
MaxObserved(table) ==
    IF table = {} THEN None
    ELSE (CHOOSE r \in table : \A r2 \in table : r2.observed_at.e <= r.observed_at.e).observed_at

PyMax(a, b) == IF a >= b THEN a ELSE b

\* a check that already calls a lag of exactly max_lag_minutes stale
DqStaleAtEqualLag(latestTable, obsTable, t, expected_locations, max_lag_minutes) ==
    LET latest_count == Cardinality(latestTable)
        max_observed == MaxObserved(obsTable)
    IN  IF latest_count < PyMax(1, expected_locations) THEN "ValueError: rows"
        ELSE IF max_observed.t = "null" THEN "ValueError: no observations"
        ELSE IF t - max_observed.e >= max_lag_minutes * 60 THEN "ValueError: stale"
        ELSE "none"

\* a check that compares the row count with expected_locations itself
DqExpectedUnclamped(latestTable, obsTable, t, expected_locations, max_lag_minutes) ==
    LET latest_count == Cardinality(latestTable)
        max_observed == MaxObserved(obsTable)
    IN  IF latest_count < expected_locations THEN "ValueError: rows"
        ELSE IF max_observed.t = "null" THEN "ValueError: no observations"
        ELSE IF t - max_observed.e > max_lag_minutes * 60 THEN "ValueError: stale"
        ELSE "none"

\* pg_dq_freshness_and_rowcount: the exception it ends with, or "none"
DqFreshnessAndRowcount(latestTable, obsTable, t, expected_locations, max_lag_minutes) ==
    LET latest_count == Cardinality(latestTable)
        max_observed == MaxObserved(obsTable)
    IN  IF latest_count < PyMax(1, expected_locations) THEN "ValueError: rows"
        ELSE IF max_observed.t = "null" THEN "ValueError: no observations"
        ELSE IF t - max_observed.e > max_lag_minutes * 60 THEN "ValueError: stale"
        ELSE "none"

-----------------------------------------------------------------------------
(* dags/weather_ingestion_hourly.py and config.py *)

DefaultMaxRetries == 3

DefaultBackoffSeconds == 1

MaxLagMinutes == 180

DEFAULT_ENDPOINT == "weather"

DEFAULT_UNITS == "metric"

\* provider bodies the tasks are run against: dt = 1 with main.temp = 10.5;
\* dt = 1.5 (the same second) with more fields; dt = 2.  The retried HTTP
\* statuses are inputs of SpecFetch; here a retry follows a timeout.
PayloadA == JObj([dt |-> JNum(2), main |-> JObj([temp |-> JNum(21)])])

PayloadB ==
    JObj([dt |-> JNum(3),
          main |-> JObj([temp |-> JNum(30), humidity |-> JNum(160)]),
          wind |-> JObj([speed |-> JNum(7)]),
          rain |-> JObj(("1h" :> JNum(1))),
          weather |-> JList(<<JObj([main |-> JStr("Rain"), description |-> JStr("light rain")])>>)])

PayloadC == JObj([dt |-> JNum(4), main |-> JObj([temp |-> JNum(24)]), visibility |-> JNum(2000)])

DagResponses ==
    { HttpResponse(200, TRUE, PayloadA, "A"),
      HttpResponse(200, TRUE, PayloadB, "B"),
      HttpResponse(200, TRUE, PayloadC, "C"),
      HttpResponse(404, FALSE, None, "<html>"),
      TransportFailure("Timeout") }

\* fetch_current_weather run to its end on the outcomes rs of its attempts
RECURSIVE RunFetch(_, _)
RunFetch(c, rs) ==
    IF LoopRuns(c) THEN RunFetch(FetchAttempt(c, Head(rs)), Tail(rs))
    ELSE IF LoopOver(c) THEN FallThrough(c)
    ELSE c

\* the call of lines 64-71: max_retries and backoff_seconds at their defaults
TaskFetchCall(loc) ==
    InitCall(DefaultMaxRetries, DefaultBackoffSeconds,
             RequestParams(loc.lat, loc.lon, "key", DEFAULT_UNITS))

\* what the task sees of a finished call
Outcome(c) ==
    [pc |-> c.pc, exc |-> c.exc, result |-> c.result, attempts |-> Len(c.outcomes)]

\* every way that call can end, per location_id
FetchOutcomes ==
    [id \in { l.location_id : l \in DimLocation } |->
        LET loc == CHOOSE l \in DimLocation : l.location_id = id IN
        { Outcome(RunFetch(TaskFetchCall(loc), rs)) :
            rs \in [1 .. DefaultMaxRetries + 1 -> DagResponses] }]

\* the instants the clock is observed at
ClockValues == {0, 10802}

Op(name, arg, exc, ret, attempts) ==
    [op |-> name, arg |-> arg, exc |-> exc, ret |-> ret, attempts |-> attempts]

IdleCall == InitCall(DefaultMaxRetries, DefaultBackoffSeconds, None)

Init ==
    /\ call = IdleCall
    /\ raw = <<>>
    /\ obs = {}
    /\ latest = {}
    /\ now = 0
    /\ lastOp = Op("none", 0, "none", 0, 0)
    /\ written = {}
    /\ dag = NoRun

\* task extract_and_load_raw(loc): fetch, then pg_insert_raw_response
ExtractAndLoadRaw(loc) ==
    /\ \E c \in FetchOutcomes[loc.location_id] :
         IF c.pc = "returned"
         THEN /\ Len(raw) < MaxRaw
              /\ raw' = InsertRawResponse(raw, now, DEFAULT_ENDPOINT, loc.location_id,
                                          loc.location_key, c.result.request_params,
                                          c.result.http_status, c.result.data_timestamp,
                                          c.result.payload)
              /\ lastOp' = Op("extract_and_load_raw", loc.location_id, "none",
                              Len(raw) + 1, c.attempts)
         ELSE /\ raw' = raw
              /\ lastOp' = Op("extract_and_load_raw", loc.location_id, c.exc,
                              0, c.attempts)
    /\ UNCHANGED <<call, obs, latest, now, written, dag>>

\* task transform_and_upsert_curated(meta): pg_upsert_weather_observation
TransformAndUpsertCurated(ingestion_id) ==
    /\ LET u == UpsertCall(raw, ingestion_id) IN
         IF u.ok
         THEN /\ obs' = UpsertObservation(obs, u.v)
              /\ written' = { w \in written : ~SameObservationKey(w, u.v) } \cup {u.v}
              /\ lastOp' = Op("transform_and_upsert_curated", ingestion_id, "none", 1, 0)
         ELSE /\ obs' = obs
              /\ written' = written
              /\ lastOp' = Op("transform_and_upsert_curated", ingestion_id, u.exc, 0, 0)
    /\ UNCHANGED <<call, raw, latest, now, dag>>

\* task refresh_latest: pg_refresh_latest
RefreshLatest ==
    /\ latest' = RefreshedLatest(latest, obs, now)
    /\ lastOp' = Op("refresh_latest", 0, "none", 0, 0)
    /\ UNCHANGED <<call, raw, obs, now, written, dag>>

\* task dq_checks(curated_results): pg_dq_freshness_and_rowcount with
\* expected_locations = len(curated_results), one result per mapped location
DqChecks ==
    /\ LET expected_locations == Cardinality(FetchActiveLocations) IN
         lastOp' = Op("dq_checks", expected_locations,
                      DqFreshnessAndRowcount(latest, obs, now, expected_locations,
                                             MaxLagMinutes),
                      0, 0)
    /\ UNCHANGED <<call, raw, obs, latest, now, written, dag>>

\* time passes
Tick ==
    /\ \E t \in ClockValues : t > now /\ now' = t
    /\ UNCHANGED <<call, raw, obs, latest, lastOp, written, dag>>

Next ==
    \/ \E loc \in FetchActiveLocations : ExtractAndLoadRaw(loc)
    \/ \E id \in 1 .. Len(raw) + 1 : TransformAndUpsertCurated(id)
    \/ RefreshLatest
    \/ DqChecks
    \/ Tick

Spec == Init /\ [][Next]_vars

-----------------------------------------------------------------------------
(* Properties of the tasks and repository operations, checked under Spec *)

ObservedLocations == { o.location_id : o \in obs }

LatestLocations == { l.location_id : l \in latest }

\* a step in which a task ran: time passes only between tasks, and lastOp'
\* then names the task and how it ended
TaskRan(name) == now' = now /\ lastOp'.op = name

\* C6: raw.weather_api_responses is append-only: a fetch-then-append step
\* adds exactly one row when fetch returned (any status, any number of
\* retries) and none when fetch failed with a transport error, and no step
\* of any task changes or removes a row already there.
C6_RawAppendOnly ==
    [][ /\ Len(raw') >= Len(raw)
        /\ \A i \in 1 .. Len(raw) : raw'[i] = raw[i]
        /\ (TaskRan("extract_and_load_raw") /\ lastOp'.exc = "none") =>
              /\ Len(raw') = Len(raw) + 1
              /\ raw'[Len(raw')].location_id = lastOp'.arg
              /\ raw'[Len(raw')].ingestion_id = lastOp'.ret
        /\ (TaskRan("extract_and_load_raw") /\ lastOp'.exc \in TransportKinds) =>
              raw' = raw
        /\ ( \/ TaskRan("transform_and_upsert_curated")
             \/ TaskRan("refresh_latest")
             \/ TaskRan("dq_checks") )
           => raw' = raw
      ]_vars

C6_Witness ==
    /\ lastOp.op = "extract_and_load_raw"
    /\ lastOp.exc = "none"
    /\ lastOp.attempts = 3
    /\ Len(raw) = 2
    /\ raw[2].http_status = 404
    /\ raw[1].http_status = 200
    /\ obs # {}
    /\ latest # {}

\* C7: mart.weather_observation holds at most one row per (location_id,
\* observed_at), and that row is, in every column, what the most recently
\* committed upsert for that key wrote: derived fields, ingested_at and
\* source_ingestion_id, with nothing kept from the row it replaced.
C7_LastWriteWins ==
    /\ \A a, b \in obs : SameObservationKey(a, b) => a = b
    /\ obs = written

C7_Witness ==
    /\ lastOp.op = "transform_and_upsert_curated"
    /\ lastOp.exc = "none"
    /\ Len(raw) = 2
    /\ raw[1].payload = PayloadB
    /\ raw[2].payload = PayloadA
    /\ \E o \in obs, l \in latest :
          /\ SameObservationKey(o, l)
          /\ l.humidity_pct = JNum(160)
          /\ o.source_ingestion_id = 2
          /\ o.humidity_pct = None
          /\ o.temp_c = JNum(21)
    /\ Cardinality(obs) = 1

NewestOf(loc) ==
    CHOOSE o \in obs :
        /\ o.location_id = loc
        /\ \A o2 \in obs : o2.location_id = loc => o2.observed_at.e <= o.observed_at.e

\* C9: right after refresh_latest, every location with an observation has
\* exactly one row in mart.weather_latest, and its observed_at and copied
\* columns are those of the location's observation with the greatest observed_at.
C9_LatestIsNewest ==
    lastOp.op = "refresh_latest" =>
        \A loc \in ObservedLocations :
            LET rows == { l \in latest : l.location_id = loc } IN
            /\ Cardinality(rows) = 1
            /\ \A l \in rows :
                 /\ l.observed_at = NewestOf(loc).observed_at
                 /\ \A c \in CopiedColumns : l[c] = NewestOf(loc)[c]

C9_Witness ==
    /\ lastOp.op = "refresh_latest"
    /\ \E a, b \in obs :
          a.location_id = b.location_id /\ a.observed_at.e < b.observed_at.e
    /\ \E l \in latest : l.observed_at = Ts(2) /\ l.visibility_m = JNum(2000)
    /\ Cardinality(ObservedLocations) = 1

SnapshotNotAhead ==
    \A l \in latest :
        \E o \in obs : o.location_id = l.location_id /\ l.observed_at.e <= o.observed_at.e

\* a step keeps every row of mart.weather_latest, at the same or a later
\* observed_at
SnapshotNotBackwards ==
    \A l \in latest :
        \E l2 \in latest' :
            l2.location_id = l.location_id /\ l2.observed_at.e >= l.observed_at.e

\* C21: across any sequence of append_raw, upsert_curated and
\* refresh_latest_snapshot calls, in any interleaving, for each location
\* the observed_at of mart.weather_latest never decreases from one state to
\* the next and is in every state at most the greatest observed_at that
\* mart.weather_observation holds for the location.
C21_SnapshotMonotoneNotAhead ==
    []SnapshotNotAhead /\ [][SnapshotNotBackwards]_vars

\* an older observation of a location was upserted after a newer one and
\* the snapshot, refreshed since, is at the newer instant
C21_Witness ==
    /\ lastOp.op = "refresh_latest"
    /\ Len(raw) = 2
    /\ raw[1].payload = PayloadC
    /\ raw[2].payload = PayloadA
    /\ raw[1].location_id = raw[2].location_id
    /\ Cardinality(obs) = 2
    /\ \E o \in obs : o.source_ingestion_id = 2 /\ o.observed_at = Ts(1)
    /\ \A l \in latest : l.observed_at = Ts(2) /\ l.updated_at = Ts(now)
    /\ latest # {}
    /\ now > 0

-----------------------------------------------------------------------------
(* normalize_current_weather_payload on its own, on a family of payloads *)

\* a key the payload does not have
Absent == [t |-> "absent"]

\* the dict {k: v}, or {} when the key is left out
Field(k, v) == IF v.t = "absent" THEN EmptyDict ELSE (k :> v)

\* values of "dt": missing, null, 1, 1.5, a non-numeric string, a list, and
\* numbers out of the range of datetime
DtValues ==
    { Absent, None, JNum(2), JNum(3), JStr("n/a"), JList(<<>>),
      JOutOfRange("ValueError"), JOutOfRange("OverflowError") }

MainValues ==
    { Absent, JObj([temp |-> JNum(21)]), JNum(5),
      JObj([temp |-> JNum(30), feels_like |-> JNum(28), humidity |-> JNum(160),
            pressure |-> JNum(2026)]) }

WindValues == { Absent, JObj([speed |-> JNum(7), deg |-> JNum(180)]) }

CloudsValues == { Absent, JObj([all |-> JNum(80)]), JStr("overcast") }

VisibilityValues == { Absent, JNum(2000) }

RainValues == { Absent, JObj(("1h" :> JNum(1))), JObj(("3h" :> JNum(5))), JNum(1) }

SnowValues == { Absent, JObj(("1h" :> JNum(3))) }

WeatherValues ==
    { Absent, JList(<<>>), JList(<<JStr("Rain")>>), JList(<<JObj(EmptyDict)>>),
      JList(<<JObj([main |-> JStr("Rain"), description |-> JStr("light rain")])>>),
      JList(<<JObj([main |-> JStr("Snow")]), JObj([main |-> JStr("Rain")])>>),
      JObj([main |-> JStr("Rain")]) }

\* the payloads normalize is called on: JSON objects made of those values,
\* and bodies that are no object at all
NormPayloads ==
    { JObj(Field("dt", dt) @@ Field("main", main) @@ Field("wind", wind)
           @@ Field("clouds", clouds) @@ Field("visibility", visibility)
           @@ Field("rain", rain) @@ Field("snow", snow) @@ Field("weather", weather)) :
        dt \in DtValues, main \in MainValues, wind \in WindValues,
        clouds \in CloudsValues, visibility \in VisibilityValues,
        rain \in RainValues, snow \in SnowValues, weather \in WeatherValues }
    \cup { JList(<<>>), JStr("service unavailable"), None }

InitNorm ==
    /\ call = IdleCall
    /\ raw = <<>>
    /\ obs = {}
    /\ latest = {}
    /\ now = 0
    /\ written = {}
    /\ dag = NoRun
    /\ \E payload \in NormPayloads : lastOp = Op("none", payload, "none", None, 0)

\* a call normalize_current_weather_payload(payload)
NormalizeCall ==
    /\ lastOp.op = "none"
    /\ LET normalized == Normalize(lastOp.arg) IN
         lastOp' = Op("normalize", lastOp.arg, normalized.exc, normalized.v, 0)
    /\ UNCHANGED <<call, raw, obs, latest, now, written, dag>>

NextNorm == NormalizeCall

SpecNorm == InitNorm /\ [][NextNorm]_vars

\* the payload is a JSON object whose "dt" is a number
HasNumericDt(payload) ==
    IsDict(payload) /\ "dt" \in DOMAIN payload.o /\ payload.o.dt.t = "num"

\* the payload has no "dt"
MissingDt(payload) == ~IsDict(payload) \/ "dt" \notin DOMAIN payload.o

\* C17: normalize succeeds with a non-null observed_at for every payload
\* whose observation-time field is present and numeric, and fails with the
\* normalization error for every payload in which it is missing; no other
\* missing or malformed field makes it fail.
C17_NormalizeTotalOnNumericDt ==
    lastOp.op = "normalize" =>
        /\ HasNumericDt(lastOp.arg) =>
              /\ lastOp.exc = "none"
              /\ lastOp.ret.observed_at.t = "ts"
        /\ MissingDt(lastOp.arg) => lastOp.exc = "ValueError"
        /\ lastOp.exc # "none" => ~HasNumericDt(lastOp.arg)

\* the member k of a JSON value: null unless the value is an object with k
Member(v, k) == IF v.t = "obj" /\ k \in DOMAIN v.o THEN v.o[k] ELSE None

\* the first element of a JSON value: null unless it is a non-empty list
FirstOf(v) == IF v.t = "list" /\ v.l # <<>> THEN v.l[1] ELSE None

\* where each optional output field comes from in the payload
SourceOf(payload) ==
    [temp_c |-> Member(Member(payload, "main"), "temp"),
     feels_like_c |-> Member(Member(payload, "main"), "feels_like"),
     humidity_pct |-> Member(Member(payload, "main"), "humidity"),
     pressure_hpa |-> Member(Member(payload, "main"), "pressure"),
     wind_speed_mps |-> Member(Member(payload, "wind"), "speed"),
     wind_deg |-> Member(Member(payload, "wind"), "deg"),
     clouds_pct |-> Member(Member(payload, "clouds"), "all"),
     visibility_m |-> Member(payload, "visibility"),
     rain_1h_mm |-> Member(Member(payload, "rain"), "1h"),
     snow_1h_mm |-> Member(Member(payload, "snow"), "1h"),
     weather_main |-> Member(FirstOf(Member(payload, "weather")), "main"),
     weather_description |-> Member(FirstOf(Member(payload, "weather")), "description")]

\* C18: for every payload with an observation time, each optional output
\* field of normalize is its source copied unchanged when the payload has
\* it, and null exactly when it has not: when main, wind, clouds, rain or
\* snow is missing or no object, when the weather list is missing, empty or
\* headed by no object, or when the container lacks the key; a payload
\* with only dt and main.temp = 10.5 gives temp_c = 10.5 and null elsewhere.
C18_OptionalFieldsFollowSource ==
    (lastOp.op = "normalize" /\ lastOp.exc = "none") =>
        /\ \A f \in CopiedColumns : lastOp.ret[f] = SourceOf(lastOp.arg)[f]
        /\ lastOp.arg = PayloadA =>
              /\ lastOp.ret.temp_c = JNum(21)
              /\ \A f \in CopiedColumns \ {"temp_c"} : lastOp.ret[f] = None

\* a payload with nested rain, a weather list of two and main as a number
C18_Witness ==
    /\ lastOp.op = "normalize"
    /\ lastOp.exc = "none"
    /\ lastOp.ret.rain_1h_mm = JNum(1)
    /\ lastOp.ret.snow_1h_mm = None
    /\ lastOp.ret.weather_main = JStr("Snow")
    /\ lastOp.ret.weather_description = None
    /\ lastOp.ret.temp_c = None
    /\ Member(lastOp.arg, "main") = JNum(5)
    /\ lastOp.ret.clouds_pct = None
    /\ Member(lastOp.arg, "clouds") = JStr("overcast")

-----------------------------------------------------------------------------
(* pg_dq_freshness_and_rowcount on its own: the call with every argument,
   on stores the tasks can have produced *)

\* most rows of raw.weather_api_responses in the stores the check is called on
MaxDqRaw == 2

\* largest expected_locations argument explored
MaxExpected == 3

\* the result dict of a fetch whose first attempt is a 200 with this body
FetchReturning(loc, payload) ==
    RunFetch(TaskFetchCall(loc), <<HttpResponse(200, TRUE, payload, "ok")>>).result

\* the pg_insert_raw_response call of lines 74-83 on a fetch result
LoadRaw(table, t, loc, resp) ==
    InsertRawResponse(table, t, DEFAULT_ENDPOINT, loc.location_id, loc.location_key,
                      resp.request_params, resp.http_status, resp.data_timestamp,
                      resp.payload)

\* raw.weather_api_responses after extract_and_load_raw ran for each
\* <<location, body>> of rs in turn
RECURSIVE LoadAll(_, _)
LoadAll(table, rs) ==
    IF rs = <<>> THEN table
    ELSE LoadAll(LoadRaw(table, 0, Head(rs)[1], FetchReturning(Head(rs)[1], Head(rs)[2])),
                 Tail(rs))

\* mart.weather_observation after transform_and_upsert_curated ran for the
\* ingestion ids 1 .. k in turn
RECURSIVE UpsertUpTo(_, _)
UpsertUpTo(rawTable, k) ==
    IF k = 0 THEN {}
    ELSE LET u == UpsertCall(rawTable, k) IN
         IF u.ok THEN UpsertObservation(UpsertUpTo(rawTable, k - 1), u.v)
         ELSE UpsertUpTo(rawTable, k - 1)

\* stores the tasks leave behind: n rows loaded, the first k of them
\* upserted, mart.weather_latest refreshed when j of them had been
DqStores ==
    { [raw |-> LoadAll(<<>>, rs), obs |-> UpsertUpTo(LoadAll(<<>>, rs), kj[1]),
       latest |-> RefreshedLatest({}, UpsertUpTo(LoadAll(<<>>, rs), kj[2]), 0)] :
        rs \in UNION { [1 .. n -> FetchActiveLocations \X {PayloadA, PayloadC}] :
                        n \in 0 .. MaxDqRaw },
        kj \in { x \in (0 .. MaxDqRaw) \X (0 .. MaxDqRaw) : x[2] <= x[1] } }

\* what a call of pg_dq_freshness_and_rowcount decides on besides the
\* tables: its arguments and the datetime.now() of line 227
DqInputs(expected_locations, max_lag_minutes, now_utc) ==
    [expected_locations |-> expected_locations, max_lag_minutes |-> max_lag_minutes,
     now_utc |-> now_utc]

InitDq ==
    /\ call = IdleCall
    /\ \E s \in DqStores :
         /\ raw = s.raw
         /\ obs = s.obs
         /\ latest = s.latest
         /\ written = s.obs
    /\ now = 0
    /\ lastOp = Op("none", DqInputs(0, 0, 0), "none", 0, 0)
    /\ dag = NoRun

\* a call pg_dq_freshness_and_rowcount(expected_locations, max_lag_minutes)
DqCall(expected_locations, max_lag_minutes) ==
    /\ lastOp' = Op("dq_checks", DqInputs(expected_locations, max_lag_minutes, now),
                    DqFreshnessAndRowcount(latest, obs, now, expected_locations,
                                           max_lag_minutes),
                    0, 0)
    /\ UNCHANGED <<call, raw, obs, latest, now, written, dag>>

NextDq ==
    \/ \E e \in 0 .. MaxExpected, m \in {0, MaxLagMinutes} : DqCall(e, m)
    \/ Tick

SpecDq == InitDq /\ [][NextDq]_vars

\* the greatest observed_at of mart.weather_observation, in seconds
NewestObservedAt ==
    CHOOSE e \in { o.observed_at.e : o \in obs } :
        \A o \in obs : o.observed_at.e <= e

-----------------------------------------------------------------------------
(* pg_upsert_weather_observation on its own: the call with every identifier,
   on stores whose raw rows hold the bodies fetch returns *)

\* a 200 body without "dt"
PayloadNoDt == JObj([main |-> JObj([temp |-> JNum(21)])])

\* a 200 body that is a JSON array
PayloadList == JList(<<>>)

\* stores with up to MaxDqRaw raw rows, the first k of them upserted and
\* the snapshot refreshed
UpsertStores ==
    { [raw |-> LoadAll(<<>>, rs), obs |-> UpsertUpTo(LoadAll(<<>>, rs), k),
       latest |-> RefreshedLatest({}, UpsertUpTo(LoadAll(<<>>, rs), k), 0)] :
        rs \in UNION { [1 .. n -> FetchActiveLocations
                                     \X {PayloadA, PayloadB, PayloadNoDt, PayloadList}] :
                        n \in 0 .. MaxDqRaw },
        k \in 0 .. MaxDqRaw }

InitUpsert ==
    /\ call = IdleCall
    /\ \E s \in UpsertStores :
         /\ raw = s.raw
         /\ obs = s.obs
         /\ latest = s.latest
         /\ written = s.obs
    /\ now = 0
    /\ lastOp = Op("none", 0, "none", 0, 0)
    /\ dag = NoRun

NextUpsert ==
    \/ \E id \in 1 .. Len(raw) + 1 : TransformAndUpsertCurated(id)
    \/ Tick

SpecUpsert == InitUpsert /\ [][NextUpsert]_vars

\* the rows of raw.weather_api_responses with this ingestion_id
RawRowsWithId(id) == { i \in 1 .. Len(raw) : raw[i].ingestion_id = id }

\* the payload carries no observation time: it is no JSON object, or an
\* object without "dt" or with a null one
LacksDt(payload) ==
    \/ ~IsDict(payload)
    \/ "dt" \notin DOMAIN payload.o
    \/ payload.o.dt.t = "null"

\* C16: upsert_curated(raw_identifier) fails with the not-found error when
\* no raw row has that identifier and with the normalization error when
\* the row's payload has no observation time, and in both cases leaves
\* mart.weather_observation, raw.weather_api_responses and
\* mart.weather_latest as they were.
C16_UpsertFailures ==
    [][ TaskRan("transform_and_upsert_curated") =>
          /\ RawRowsWithId(lastOp'.arg) = {} =>
                /\ lastOp'.exc = "RuntimeError"
                /\ obs' = obs /\ raw' = raw /\ latest' = latest
          /\ \A i \in RawRowsWithId(lastOp'.arg) :
                LacksDt(raw[i].payload) =>
                   /\ lastOp'.exc = "ValueError"
                   /\ obs' = obs /\ raw' = raw /\ latest' = latest
      ]_vars

-----------------------------------------------------------------------------
(* One run of the DAG weather_ingestion_hourly under the scheduler: the task
   instances with their upstream dependencies and retries *)

\* default_args["retries"]
TaskRetries == 3

LocationIds == { l.location_id : l \in DimLocation }

LocationOf(id) == CHOOSE l \in DimLocation : l.location_id = id

\* what the provider answers for a location, at every attempt of the run
RunResponses ==
    { HttpResponse(200, TRUE, PayloadA, "A"),
      HttpResponse(200, TRUE, PayloadC, "C"),
      HttpResponse(200, TRUE, PayloadNoDt, "N"),
      HttpResponse(200, TRUE, PayloadList, "[]"),
      TransportFailure("Timeout") }

\* a DAG run before its first task instance: every instance without state,
\* no try made, no XCom pushed; at_start remembers the tables as the run
\* found them
NewRun(provider, store) ==
    [run |-> "running",
     provider |-> provider,
     at_start |-> store,
     get_locations |-> "none",
     extract_and_load_raw |-> [id \in LocationIds |-> "none"],
     transform_and_upsert_curated |-> [id \in LocationIds |-> "none"],
     dq_checks |-> "none",
     refresh_latest |-> "none",
     tries |-> [extract_and_load_raw |-> [id \in LocationIds |-> 0],
                transform_and_upsert_curated |-> [id \in LocationIds |-> 0],
                dq_checks |-> 0],
     ingestion_id |-> [id \in LocationIds |-> 0]]

\* a task instance the scheduler may queue: not yet run, or waiting for a retry
Schedulable(state) == state \in {"none", "up_for_retry"}

\* the state of a task instance whose try number `tries + 1` raised
AfterFailure(tries) == IF tries + 1 > TaskRetries THEN "failed" ELSE "up_for_retry"

\* fetch_current_weather for a location against the run's provider
RunFetchFor(id) ==
    Outcome(RunFetch(TaskFetchCall(LocationOf(id)),
                     [i \in 1 .. DefaultMaxRetries + 1 |-> dag.provider[id]]))

\* what a run can find: the empty store of a first run, or the store an
\* earlier run left after loading, upserting and refreshing both locations
PriorStores ==
    { [raw |-> <<>>, obs |-> {}, latest |-> {}],
      LET r == LoadAll(<<>>, <<<<LocationOf(1), PayloadA>>, <<LocationOf(2), PayloadA>>>>)
      IN  [raw |-> r, obs |-> UpsertUpTo(r, Len(r)),
           latest |-> RefreshedLatest({}, UpsertUpTo(r, Len(r)), 0)] }

InitDag ==
    /\ call = IdleCall
    /\ now = 0
    /\ lastOp = Op("none", 0, "none", 0, 0)
    /\ \E s \in PriorStores, provider \in [LocationIds -> RunResponses] :
         /\ raw = s.raw
         /\ obs = s.obs
         /\ latest = s.latest
         /\ written = s.obs
         /\ dag = NewRun(provider, s)

\* task get_locations: no upstream
DagGetLocations ==
    /\ dag.get_locations = "none"
    /\ dag' = [dag EXCEPT !.get_locations = "success"]
    /\ lastOp' = Op("get_locations", 0, "none", Cardinality(FetchActiveLocations), 0)
    /\ UNCHANGED <<call, raw, obs, latest, now, written>>

\* a mapped instance of extract_and_load_raw: upstream get_locations
DagExtractAndLoadRaw(id) ==
    /\ dag.get_locations = "success"
    /\ Schedulable(dag.extract_and_load_raw[id])
    /\ LET c == RunFetchFor(id) IN
         IF c.pc = "returned"
         THEN /\ raw' = LoadRaw(raw, now, LocationOf(id), c.result)
              /\ dag' = [dag EXCEPT !.extract_and_load_raw[id] = "success",
                                    !.ingestion_id[id] = Len(raw) + 1]
              /\ lastOp' = Op("extract_and_load_raw", id, "none", Len(raw) + 1, c.attempts)
         ELSE /\ raw' = raw
              /\ dag' = [dag EXCEPT
                            !.extract_and_load_raw[id] =
                                AfterFailure(dag.tries.extract_and_load_raw[id]),
                            !.tries.extract_and_load_raw[id] = @ + 1]
              /\ lastOp' = Op("extract_and_load_raw", id, c.exc, 0, c.attempts)
    /\ UNCHANGED <<call, obs, latest, now, written>>

\* a transform that upserts from the row loaded last instead of the
\* ingestion_id its own extract instance returned
DagTransformNewestRaw(id) ==
    /\ \A j \in LocationIds : dag.extract_and_load_raw[j] = "success"
    /\ Schedulable(dag.transform_and_upsert_curated[id])
    /\ LET u == UpsertCall(raw, Len(raw)) IN
         IF u.ok
         THEN /\ obs' = UpsertObservation(obs, u.v)
              /\ written' = { w \in written : ~SameObservationKey(w, u.v) } \cup {u.v}
              /\ dag' = [dag EXCEPT !.transform_and_upsert_curated[id] = "success"]
              /\ lastOp' = Op("transform_and_upsert_curated", Len(raw), "none", 1, 0)
         ELSE /\ obs' = obs
              /\ written' = written
              /\ dag' = [dag EXCEPT
                            !.transform_and_upsert_curated[id] =
                                AfterFailure(dag.tries.transform_and_upsert_curated[id]),
                            !.tries.transform_and_upsert_curated[id] = @ + 1]
              /\ lastOp' = Op("transform_and_upsert_curated", Len(raw), u.exc, 0, 0)
    /\ UNCHANGED <<call, raw, latest, now>>

\* a mapped instance of transform_and_upsert_curated: upstream every
\* instance of extract_and_load_raw (trigger rule all_success)
DagTransformAndUpsertCurated(id) ==
    /\ \A j \in LocationIds : dag.extract_and_load_raw[j] = "success"
    /\ Schedulable(dag.transform_and_upsert_curated[id])
    /\ LET u == UpsertCall(raw, dag.ingestion_id[id]) IN
         IF u.ok
         THEN /\ obs' = UpsertObservation(obs, u.v)
              /\ written' = { w \in written : ~SameObservationKey(w, u.v) } \cup {u.v}
              /\ dag' = [dag EXCEPT !.transform_and_upsert_curated[id] = "success"]
              /\ lastOp' = Op("transform_and_upsert_curated", dag.ingestion_id[id],
                              "none", 1, 0)
         ELSE /\ obs' = obs
              /\ written' = written
              /\ dag' = [dag EXCEPT
                            !.transform_and_upsert_curated[id] =
                                AfterFailure(dag.tries.transform_and_upsert_curated[id]),
                            !.tries.transform_and_upsert_curated[id] = @ + 1]
              /\ lastOp' = Op("transform_and_upsert_curated", dag.ingestion_id[id],
                              u.exc, 0, 0)
    /\ UNCHANGED <<call, raw, latest, now>>

\* a check that acts as a rollback: when it fails, the tables are put back
\* to what the run found
DagDqChecksRollback ==
    /\ \A j \in LocationIds : dag.transform_and_upsert_curated[j] = "success"
    /\ Schedulable(dag.dq_checks)
    /\ LET expected_locations == Cardinality(LocationIds)
           exc == DqFreshnessAndRowcount(latest, obs, now, expected_locations,
                                         MaxLagMinutes)
       IN  /\ lastOp' = Op("dq_checks", expected_locations, exc, 0, 0)
           /\ dag' = IF exc = "none"
                     THEN [dag EXCEPT !.dq_checks = "success"]
                     ELSE [dag EXCEPT !.dq_checks = AfterFailure(dag.tries.dq_checks),
                                      !.tries.dq_checks = @ + 1]
           /\ obs' = IF exc = "none" THEN obs ELSE dag.at_start.obs
           /\ written' = IF exc = "none" THEN written ELSE dag.at_start.obs
    /\ UNCHANGED <<call, raw, latest, now>>

\* task dq_checks(curated): upstream every instance of
\* transform_and_upsert_curated; expected_locations = len(curated_results)
DagDqChecks ==
    /\ \A j \in LocationIds : dag.transform_and_upsert_curated[j] = "success"
    /\ Schedulable(dag.dq_checks)
    /\ LET expected_locations == Cardinality(LocationIds)
           exc == DqFreshnessAndRowcount(latest, obs, now, expected_locations,
                                         MaxLagMinutes)
       IN  /\ lastOp' = Op("dq_checks", expected_locations, exc, 0, 0)
           /\ dag' = IF exc = "none"
                     THEN [dag EXCEPT !.dq_checks = "success"]
                     ELSE [dag EXCEPT !.dq_checks = AfterFailure(dag.tries.dq_checks),
                                      !.tries.dq_checks = @ + 1]
    /\ UNCHANGED <<call, raw, obs, latest, now, written>>

\* task refresh_latest: no upstream
DagRefreshLatest ==
    /\ dag.refresh_latest = "none"
    /\ latest' = RefreshedLatest(latest, obs, now)
    /\ dag' = [dag EXCEPT !.refresh_latest = "success"]
    /\ lastOp' = Op("refresh_latest", 0, "none", 0, 0)
    /\ UNCHANGED <<call, raw, obs, now, written>>

NextDag ==
    \/ DagGetLocations
    \/ \E id \in LocationIds : DagExtractAndLoadRaw(id)
    \/ \E id \in LocationIds : DagTransformAndUpsertCurated(id)
    \/ DagDqChecks
    \/ DagRefreshLatest
    \/ Tick

SpecDag == InitDag /\ [][NextDag]_vars

-----------------------------------------------------------------------------
(* Properties of the DAG run, checked under SpecDag *)

\* the fetch -> append_raw -> upsert_curated chain of a location has nothing
\* left to run: its extract failed for good, or its transform ended, or its
\* transform can never run because another instance of extract failed
ChainCompleted(id) ==
    \/ dag.extract_and_load_raw[id] = "failed"
    \/ dag.transform_and_upsert_curated[id] \in {"success", "failed"}
    \/ /\ dag.extract_and_load_raw[id] = "success"
       /\ \E j \in LocationIds : dag.extract_and_load_raw[j] = "failed"

\* C12: in every execution of one pipeline run, neither check_data_quality
\* nor refresh_latest_snapshot starts before every per-location chain of
\* the run has completed.
C12_GateAfterChains ==
    (dag.dq_checks # "none" \/ dag.refresh_latest # "none")
        => \A id \in LocationIds : ChainCompleted(id)

\* C13: in every execution of one pipeline run, the row count
\* check_data_quality evaluates is the one mart.weather_latest had before
\* the run's refresh_latest_snapshot took effect.
C13_DqReadsPreRefresh ==
    [][ TaskRan("dq_checks") => Cardinality(latest) = Cardinality(dag.at_start.latest)
      ]_vars

AllChainsCompleted == \A id \in LocationIds : ChainCompleted(id)

\* the tables after the chain of one location ran alone, start to end, on
\* the tables of store: fetch, then append_raw if fetch returned, then
\* upsert_curated of the row just appended
ChainAlone(store, id, t) ==
    LET c == RunFetchFor(id) IN
    IF c.pc # "returned" THEN store
    ELSE LET raw2 == LoadRaw(store.raw, t, LocationOf(id), c.result)
             u == UpsertCall(raw2, Len(raw2))
         IN  [store EXCEPT !.raw = raw2,
                           !.obs = IF u.ok THEN UpsertObservation(store.obs, u.v)
                                   ELSE store.obs]

\* the chains run one after the other in the order ord
RECURSIVE Sequentially(_, _, _)
Sequentially(store, ord, t) ==
    IF ord = <<>> THEN store
    ELSE Sequentially(ChainAlone(store, Head(ord), t), Tail(ord), t)

\* every order of the locations
Orders ==
    { ord \in [1 .. Cardinality(LocationIds) -> LocationIds] :
        \A i, j \in DOMAIN ord : ord[i] = ord[j] => i = j }

Without(row, columns) == [c \in DOMAIN row \ columns |-> row[c]]

\* rows of raw.weather_api_responses up to the identifier (and the instant)
\* the store gave them
RawRowsUpToIds(table) ==
    { Without(table[i], {"ingestion_id", "ingested_at"}) : i \in DOMAIN table }

\* rows of mart.weather_observation but for the instant of the insert
ObservationContents(table) == { Without(o, {"ingested_at"}) : o \in table }

\* rows of mart.weather_observation but for what they carry over from the
\* raw row: its identifier and the instant of its insert
DerivedContents(table) ==
    { Without(o, {"ingested_at", "source_ingestion_id"}) : o \in table }

C15_DqChangesNothing ==
    [][ TaskRan("dq_checks") => (raw' = raw /\ obs' = obs /\ latest' = latest)
      ]_vars

\* the check failed after the run had loaded and upserted both locations
C15_Witness ==
    /\ lastOp.op = "dq_checks"
    /\ lastOp.exc # "none"
    /\ Len(raw) = Len(dag.at_start.raw) + 2
    /\ Cardinality(obs) = Cardinality(dag.at_start.obs) + 2
    /\ dag.tries.dq_checks > 0

\* the provider answers this location with a 200 whose body parses and
\* has no observation time
AnswersWithoutDt(id) ==
    /\ dag.provider[id].kind = "http"
    /\ dag.provider[id].status = 200
    /\ dag.provider[id].parses
    /\ LacksDt(dag.provider[id].json)

\* the rows of mart.weather_observation made from the raw rows of a location
\* that this run loaded
ObservationsOfRun(id) ==
    { o \in obs : o.location_id = id /\ o.source_ingestion_id > Len(dag.at_start.raw) }

\* C19: for a 200 response whose body lacks the observation time, fetch
\* returns with data_timestamp = null and append_raw commits one raw row;
\* the upsert_curated that follows fails with the normalization error and
\* changes nothing, so the chain ends with one new raw row and no new or
\* changed row in mart.weather_observation.
C19_MissingDtFatalOnlyAtNormalize ==
    [][ /\ (TaskRan("extract_and_load_raw") /\ AnswersWithoutDt(lastOp'.arg)) =>
              /\ lastOp'.exc = "none"
              /\ lastOp'.attempts = 1
              /\ Len(raw') = Len(raw) + 1
              /\ raw'[Len(raw')].location_id = lastOp'.arg
              /\ raw'[Len(raw')].http_status = 200
              /\ raw'[Len(raw')].data_timestamp = None
              /\ raw'[Len(raw')].payload = dag.provider[lastOp'.arg].json
              /\ obs' = obs
        /\ \A id \in LocationIds :
              ( /\ TaskRan("transform_and_upsert_curated")
                /\ lastOp'.arg = dag.ingestion_id[id]
                /\ AnswersWithoutDt(id) ) =>
                   /\ lastOp'.exc = "ValueError"
                   /\ obs' = obs
                   /\ raw' = raw
        /\ \A id \in LocationIds :
              (AllChainsCompleted' /\ AnswersWithoutDt(id)) =>
                   /\ Cardinality({ i \in Len(dag.at_start.raw) + 1 .. Len(raw') :
                                      raw'[i].location_id = id }) = 1
                   /\ { o \in obs' : o.location_id = id }
                        = { o \in dag.at_start.obs : o.location_id = id }
      ]_vars

=============================================================================
